---- MODULE Spec2Model ----
(***************************************************************************)
(* Model of core-js-101: the css selector builder of 06-objects-tasks.js   *)
(* and the promise combinators of the promise tasks file.                  *)
(*                                                                         *)
(* A JavaScript string is modelled as the sequence of its characters, so   *)
(* that concatenation is \o and a character position can be inspected.     *)
(***************************************************************************)
EXTENDS Integers, Sequences, FiniteSets, TLC

VARIABLES
    chains,     \* heap of Selector objects: chains[c] is the closure state of chain c
    nodes,      \* heap of Combiner objects
    call,       \* the call made by the last step and how it ended
    accepted,   \* per chain, the (method, name) of every call that returned normally
    combined,   \* per combinator node, the arguments combine was called with
    promises,   \* heap of Promise objects: state, value and pending reactions
    jobs,       \* the microtask queue of promise reaction jobs
    array,      \* the caller's array of input promises, as the callee leaves it
    invoked,    \* the function called, with its action and argument
    result,     \* the promise the function returned, 0 before the call
    subscribed, \* the promises then() was called on, in call order
    processed,  \* chainPromises: the inputs whose continuation ran, in order
    firstSettled, \* the input that is first to settle for the callee: the first in
                 \* the array of those settled at the call, else the first to
                 \* settle after it; 0 while there is none
    allAcc,     \* processAllPromises: the array acc the returned promise delivers
    observed,   \* processAllPromises: what the caller's own continuation saw
    fulfilledAtCall, \* processAllPromises: the inputs fulfilled when it was called
    fulfilOrder \* processAllPromises: the inputs in the order they fulfilled,
                \* those fulfilled at the call first and in array order

selectorVars == <<chains, nodes, call, accepted, combined>>

promiseVars ==
    <<promises, jobs, array, invoked, result, subscribed, processed, firstSettled,
      allAcc, observed, fulfilledAtCall, fulfilOrder>>

vars == <<selectorVars, promiseVars>>

(***************************************************************************)
(* Bounds of the model and the inputs the calls are drawn from.            *)
(***************************************************************************)
MaxFragments == 3

MaxHeap == 3

MaxInputs == 3

Names == { <<"a">>, <<"t", "d">> }

BuilderNames == { <<"a">> }

Combinators == { <<" ">>, <<"+">> }

Methods == {"element", "id", "class", "attr", "pseudoClass", "pseudoElement"}

(***************************************************************************)
(* The Selector closure: selectors, currentSelectorWeight and the private  *)
(* helpers.  A Selector state S is [selectors, currentSelectorWeight].     *)
(***************************************************************************)
DuplicateSingleton ==
    "Element, id and pseudo-element should not occur more then one time inside the selector"

OutOfOrder ==
    "Selector parts should be arranged in the following order: element, id, class, attribute, pseudo-class, pseudo-element"

NoError == "none"

unchainableSelecors_NoPseudoElement == <<0, 1>>

unchainableSelecors == <<0, 1, 5>>

Selector == [selectors |-> <<>>, currentSelectorWeight |-> 0]

getSelectorObject(selectorName, symbols, weight) ==
    [selectorName |-> selectorName, symbols |-> symbols, weight |-> weight]

isUnchainableInChain(S, selector) ==
    /\ \E i \in 1..Len(unchainableSelecors) : unchainableSelecors[i] = selector.weight
    /\ \E i \in 1..Len(S.selectors) : S.selectors[i].weight = selector.weight

\* checkSequence with the two checks in the other order.
checkSequence_OrderFirst(S, selector) ==
    IF selector.weight < S.currentSelectorWeight
    THEN [error |-> OutOfOrder, S |-> S]
    ELSE IF isUnchainableInChain(S, selector)
    THEN [error |-> DuplicateSingleton, S |-> S]
    ELSE [error |-> NoError, S |-> [S EXCEPT !.currentSelectorWeight = selector.weight]]

\* checkSequence comparing with <= where the code compares with <.
checkSequence_NonStrict(S, selector) ==
    IF isUnchainableInChain(S, selector)
    THEN [error |-> DuplicateSingleton, S |-> S]
    ELSE IF selector.weight <= S.currentSelectorWeight
    THEN [error |-> OutOfOrder, S |-> S]
    ELSE [error |-> NoError, S |-> [S EXCEPT !.currentSelectorWeight = selector.weight]]

\* checkSequence moving the cursor before it compares with it.
checkSequence_CursorFirst(S, selector) ==
    IF isUnchainableInChain(S, selector)
    THEN [error |-> DuplicateSingleton, S |-> S]
    ELSE IF selector.weight < S.currentSelectorWeight
    THEN [error |-> OutOfOrder,
          S |-> [S EXCEPT !.currentSelectorWeight = selector.weight]]
    ELSE [error |-> NoError, S |-> [S EXCEPT !.currentSelectorWeight = selector.weight]]

\* The outcome of checkSequence: the error thrown (or none) and the closure
\* state it leaves behind.
checkSequence(S, selector) ==
    IF isUnchainableInChain(S, selector)
    THEN [error |-> DuplicateSingleton, S |-> S]
    ELSE IF selector.weight < S.currentSelectorWeight
    THEN [error |-> OutOfOrder, S |-> S]
    ELSE [error |-> NoError, S |-> [S EXCEPT !.currentSelectorWeight = selector.weight]]

handleSelector(S, selector) ==
    LET checked == checkSequence(S, selector)
    IN  IF checked.error # NoError
        THEN checked
        ELSE [error |-> NoError,
              S |-> [checked.S EXCEPT !.selectors = Append(@, selector)]]

\* symbols[i] || '' with a 0-based index i: an index past the end of the
\* array reads undefined, which like '' is falsy.
SymbolOrEmpty(symbols, i) ==
    IF i + 1 <= Len(symbols) /\ symbols[i + 1] # <<>> THEN symbols[i + 1] ELSE <<>>

\* getSelectorString forgetting the subsequent symbol.
getSelectorString_NoSuffix(selector) ==
    SymbolOrEmpty(selector.symbols, 0) \o selector.selectorName

getSelectorString(selector) ==
    LET preceedingSymbol == SymbolOrEmpty(selector.symbols, 0)
        subsequentSymbol == SymbolOrEmpty(selector.symbols, 1)
    IN  preceedingSymbol \o selector.selectorName \o subsequentSymbol

element(S, tagName) == handleSelector(S, getSelectorObject(tagName, <<>>, 0))

id(S, idName) == handleSelector(S, getSelectorObject(idName, << <<"#">> >>, 1))

class(S, className) == handleSelector(S, getSelectorObject(className, << <<".">> >>, 2))

attr(S, attributeName) ==
    handleSelector(S, getSelectorObject(attributeName, << <<"[">>, <<"]">> >>, 3))

pseudoClass(S, className) ==
    handleSelector(S, getSelectorObject(className, << <<":">> >>, 4))

pseudoElement(S, className) ==
    handleSelector(S, getSelectorObject(className, << <<":", ":">> >>, 5))

\* selectors.reduce((acc, selector) => acc + getSelectorString(selector), '')
RECURSIVE reduceSelectors(_, _, _)
reduceSelectors(selectors, i, acc) ==
    IF i > Len(selectors) THEN acc
    ELSE reduceSelectors(selectors, i + 1, acc \o getSelectorString(selectors[i]))

stringify(S) == reduceSelectors(S.selectors, 1, <<>>)

\* The method of a Selector that a call names.
Invoke(S, method, name) ==
    CASE method = "element" -> element(S, name)
      [] method = "id" -> id(S, name)
      [] method = "class" -> class(S, name)
      [] method = "attr" -> attr(S, name)
      [] method = "pseudoClass" -> pseudoClass(S, name)
      [] method = "pseudoElement" -> pseudoElement(S, name)

(***************************************************************************)
(* Object references and the Combiner.                                     *)
(***************************************************************************)
SelectorRef(c) == [type |-> "Selector", at |-> c]

CombinerRef(n) == [type |-> "Combiner", at |-> n]

NoRef == [type |-> "none", at |-> 0]

Refs == {SelectorRef(c) : c \in 1..Len(chains)} \cup {CombinerRef(n) : n \in 1..Len(nodes)}

Combiner(selector1, combinator, selector2) ==
    [LHselector |-> selector1, combinator |-> combinator, RHselector |-> selector2]

\* The template with the space after the combinator left out.
CombinerTemplate_NoSpaceAfter(left, combinator, right) ==
    left \o <<" ">> \o combinator \o right

\* The template collapsing a whitespace combinator into the padding.
CombinerTemplate_Collapsed(left, combinator, right) ==
    IF combinator = <<" ">>
    THEN left \o <<" ", " ">> \o right
    ELSE left \o <<" ">> \o combinator \o <<" ">> \o right

\* The template literal `${left} ${combinator} ${right}` of Combiner.stringify.
CombinerTemplate(left, combinator, right) ==
    left \o <<" ">> \o combinator \o <<" ">> \o right

\* ref.stringify(): a Selector renders its fragments, a Combiner renders its
\* operands by calling their stringify and fills the template.
RECURSIVE stringifyRef(_)
stringifyRef(ref) ==
    IF ref.type = "Selector"
    THEN stringify(chains[ref.at])
    ELSE LET this == nodes[ref.at]
         IN  CombinerTemplate(stringifyRef(this.LHselector), this.combinator,
                              stringifyRef(this.RHselector))

RECURSIVE SumLen(_, _)
SumLen(cs, i) == IF i > Len(cs) THEN 0 ELSE Len(cs[i].selectors) + SumLen(cs, i + 1)

\* Number of fragments and combinator nodes allocated so far.
HeapSize == SumLen(chains, 1) + Len(nodes)

(***************************************************************************)
(* The calls.                                                              *)
(***************************************************************************)
CallRecord(op, self, name, error, returned, text) ==
    [op |-> op, self |-> self, name |-> name, error |-> error,
     returned |-> returned, text |-> text]

NoCall == CallRecord("none", NoRef, <<>>, NoError, NoRef, <<>>)

\* No chain or node exists, and no promise: the promise variables keep
\* these values in the specifications of the selector builder.
InitSelector ==
    /\ chains = <<>>
    /\ nodes = <<>>
    /\ call = NoCall
    /\ accepted = <<>>
    /\ combined = <<>>
    /\ promises = <<>>
    /\ jobs = <<>>
    /\ array = <<>>
    /\ invoked = [fn |-> "none", action |-> "none",
                  x |-> [t |-> "undefined", n |-> 0, s |-> ""]]
    /\ result = 0
    /\ subscribed = <<>>
    /\ processed = <<>>
    /\ firstSettled = 0
    /\ allAcc = <<>>
    /\ observed = [done |-> FALSE, res |-> <<>>]
    /\ fulfilledAtCall = {}
    /\ fulfilOrder = <<>>

\* The facade with the closure state shared between the chains it makes.
FacadeCall_Shared(method, name) ==
    LET made == Invoke(IF chains = <<>> THEN Selector ELSE chains[Len(chains)],
                       method, name)
        c == Len(chains) + 1
    IN  /\ IF made.error = NoError
           THEN /\ chains' = Append(chains, made.S)
                /\ accepted' = Append(accepted, << <<method, name>> >>)
                /\ call' = CallRecord(method, SelectorRef(c), name, NoError,
                                      SelectorRef(c), <<>>)
           ELSE /\ UNCHANGED <<chains, accepted>>
                /\ call' = CallRecord(method, NoRef, name, made.error, NoRef, <<>>)
        /\ UNCHANGED <<nodes, combined, promiseVars>>

\* cssSelectorBuilder.<method>(name): new Selector().<method>(name)
FacadeCall(method, name) ==
    LET made == Invoke(Selector, method, name)
        c == Len(chains) + 1
    IN  /\ IF made.error = NoError
           THEN /\ chains' = Append(chains, made.S)
                /\ accepted' = Append(accepted, << <<method, name>> >>)
                /\ call' = CallRecord(method, SelectorRef(c), name, NoError,
                                      SelectorRef(c), <<>>)
           ELSE /\ UNCHANGED <<chains, accepted>>
                /\ call' = CallRecord(method, NoRef, name, made.error, NoRef, <<>>)
        /\ UNCHANGED <<nodes, combined, promiseVars>>

\* A chained call returning a new chain and leaving chain c as it was.
ChainCall_Immutable(c, method, name) ==
    LET made == Invoke(chains[c], method, name)
        new == SelectorRef(Len(chains) + 1)
    IN  /\ chains' = IF made.error = NoError THEN Append(chains, made.S) ELSE chains
        /\ accepted' = IF made.error = NoError
                       THEN Append(accepted, Append(accepted[c], <<method, name>>))
                       ELSE accepted
        /\ call' = CallRecord(method, SelectorRef(c), name, made.error,
                              IF made.error = NoError THEN new ELSE NoRef, <<>>)
        /\ UNCHANGED <<nodes, combined, promiseVars>>

\* chain.<method>(name) on an existing chain c; it returns this or throws.
ChainCall(c, method, name) ==
    LET made == Invoke(chains[c], method, name)
    IN  /\ chains' = [chains EXCEPT ![c] = made.S]
        /\ accepted' = IF made.error = NoError
                       THEN [accepted EXCEPT ![c] = Append(@, <<method, name>>)]
                       ELSE accepted
        /\ call' = CallRecord(method, SelectorRef(c), name, made.error,
                              IF made.error = NoError THEN SelectorRef(c) ELSE NoRef,
                              <<>>)
        /\ UNCHANGED <<nodes, combined, promiseVars>>

\* stringify draining the fragments of a chain while it renders them.
StringifyCall_Draining(ref) ==
    /\ call' = CallRecord("stringify", ref, <<>>, NoError, NoRef, stringifyRef(ref))
    /\ chains' = IF ref.type = "Selector"
                 THEN [chains EXCEPT ![ref.at].selectors = <<>>]
                 ELSE chains
    /\ UNCHANGED <<nodes, accepted, combined, promiseVars>>

\* ref.stringify() on a chain or a combinator node.
StringifyCall(ref) ==
    /\ call' = CallRecord("stringify", ref, <<>>, NoError, NoRef, stringifyRef(ref))
    /\ UNCHANGED <<chains, nodes, accepted, combined, promiseVars>>

\* cssSelectorBuilder.combine(selector1, combinator, selector2)
CombineCall(selector1, combinator, selector2) ==
    /\ nodes' = Append(nodes, Combiner(selector1, combinator, selector2))
    /\ combined' = Append(combined, <<selector1, combinator, selector2>>)
    /\ call' = CallRecord("combine", NoRef, combinator, NoError,
                          CombinerRef(Len(nodes) + 1), <<>>)
    /\ UNCHANGED <<chains, accepted, promiseVars>>

(***************************************************************************)
(* JavaScript values of the promise tasks: [t, n, s] with the type t, the  *)
(* number n (of a number or boolean) and the text s (of a string or the    *)
(* message of an Error).                                                   *)
(***************************************************************************)
Undefined == [t |-> "undefined", n |-> 0, s |-> ""]

Null == [t |-> "null", n |-> 0, s |-> ""]

Num(n) == [t |-> "number", n |-> n, s |-> ""]

Str(s) == [t |-> "string", n |-> 0, s |-> s]

Bool(b) == [t |-> "boolean", n |-> IF b THEN 1 ELSE 0, s |-> ""]

Error(message) == [t |-> "Error", n |-> 0, s |-> message]

\* The reference to the array acc of processAllPromises.
AccRef == [t |-> "array", n |-> 0, s |-> ""]

\* The Error input i rejects with: one object per input.
Reason(i) == [t |-> "Error", n |-> i, s |-> "rejected"]

\* ToBoolean, as the conditional operator applies it.
Truthy(v) ==
    CASE v.t = "undefined" -> FALSE
      [] v.t = "null" -> FALSE
      [] v.t = "number" -> v.n # 0
      [] v.t = "boolean" -> v.n = 1
      [] v.t = "string" -> v.s # ""
      [] OTHER -> TRUE

Values == {Num(0), Num(1), Num(2), Num(3)}

Answers == {Undefined, Null, Bool(TRUE), Bool(FALSE), Num(0), Num(1), Str(""), Str("yes")}

Actions == {"add", "mul"}

\* action(acc, value) for the callbacks (a, b) => a + b and (a, b) => a * b.
Apply(action, a, b) == IF action = "add" THEN Num(a.n + b.n) ELSE Num(a.n * b.n)

(***************************************************************************)
(* Promises.  The operators below take and return the world W, the record  *)
(* of the promise variables, so that one callback's several effects        *)
(* compose.                                                                *)
(***************************************************************************)
NoHandler == [fn |-> "undefined", acc |-> Undefined, of |-> 0]

Handler(fn, acc, of) == [fn |-> fn, acc |-> acc, of |-> of]

World ==
    [promises |-> promises, jobs |-> jobs, array |-> array, invoked |-> invoked,
     result |-> result, subscribed |-> subscribed, processed |-> processed,
     allAcc |-> allAcc, observed |-> observed]

NewPromise(W) ==
    [W EXCEPT !.promises =
         Append(@, [state |-> "pending", value |-> Undefined, reactions |-> <<>>])]

\* The reaction job of a reaction of a promise that settled as (state, value).
Job(reaction, state, value) ==
    [handler |-> IF state = "fulfilled" THEN reaction.onFulfilled ELSE reaction.onRejected,
     derived |-> reaction.derived, state |-> state, value |-> value]

\* Settling promise p: a no-op once p is settled, else its reactions are
\* queued in registration order.
\* A settle that overwrites the outcome of a promise settled before.
SettlePromise_Overwrite(W, p, state, value) ==
    LET reactions == W.promises[p].reactions
    IN  [W EXCEPT
            !.promises[p] = [state |-> state, value |-> value, reactions |-> <<>>],
            !.jobs = @ \o [i \in 1..Len(reactions) |-> Job(reactions[i], state, value)]]

SettlePromise(W, p, state, value) ==
    IF W.promises[p].state # "pending" THEN W
    ELSE LET reactions == W.promises[p].reactions
         IN  [W EXCEPT
                 !.promises[p] = [state |-> state, value |-> value, reactions |-> <<>>],
                 !.jobs = @ \o [i \in 1..Len(reactions) |-> Job(reactions[i], state, value)]]

\* p.then(onFulfilled, onRejected): the derived promise is the last one of
\* the returned world.
then(W, p, onFulfilled, onRejected) ==
    LET W1 == NewPromise(W)
        reaction == [onFulfilled |-> onFulfilled, onRejected |-> onRejected,
                     derived |-> Len(W1.promises)]
        W2 == IF W1.promises[p].state = "pending"
              THEN [W1 EXCEPT !.promises[p].reactions = Append(@, reaction)]
              ELSE [W1 EXCEPT !.jobs = Append(@, Job(reaction, W1.promises[p].state,
                                                     W1.promises[p].value))]
    IN  [W2 EXCEPT !.subscribed = Append(@, p)]

catch(W, p, onRejected) == then(W, p, NoHandler, onRejected)

\* The resolve and reject functions of the returned promise.
resolve(W, value) == SettlePromise(W, W.result, "fulfilled", value)

reject(W, value) == SettlePromise(W, W.result, "rejected", value)

\* new Promise(executor), before the executor runs.
NewResult(W) ==
    LET W1 == NewPromise(W) IN [W1 EXCEPT !.result = Len(W1.promises)]

(***************************************************************************)
(* The four tasks.                                                         *)
(***************************************************************************)
Yes == "Hooray!!! She said \"Yes\"!"

No == "Oh no, she said \"No\"."

WrongParameter == "Wrong parameter is passed! Ask her again."

willYouMarryMe(W, isPositiveAnswer) ==
    LET W1 == NewResult(W)
    IN  IF isPositiveAnswer # Undefined
        THEN resolve(W1, IF Truthy(isPositiveAnswer) THEN Str(Yes) ELSE Str(No))
        ELSE reject(W1, Error(WrongParameter))

\* array.forEach(promise => promise.then(value => resolve(value))
\*                                 .catch(e => reject(e)))
RECURSIVE forEachFastest(_, _)
forEachFastest(W, i) ==
    IF i > Len(W.array) THEN W
    ELSE LET W1 == then(W, W.array[i], Handler("fastestThen", Undefined, i), NoHandler)
             W2 == catch(W1, Len(W1.promises), Handler("fastestCatch", Undefined, i))
         IN  forEachFastest(W2, i + 1)

getFastestPromise(W) == forEachFastest(NewResult(W), 1)

\* acc.push(value) putting the value in front.
push_Unshift(array1, value) == <<value>> \o array1

\* acc.push(value)
push(array1, value) == Append(array1, value)

\* array.forEach(promise => { promise.then(value => acc.push(value)); })
RECURSIVE forEachProcess(_, _)
forEachProcess(W, i) ==
    IF i > Len(W.array) THEN W
    ELSE forEachProcess(then(W, W.array[i], Handler("push", Undefined, i), NoHandler),
                        i + 1)

\* processAllPromises resolving only when every input has fulfilled already.
processAllPromises_WhenAllFulfilled(W) ==
    LET W1 == forEachProcess([NewResult(W) EXCEPT !.allAcc = <<>>], 1)
    IN  IF \A i \in 1..Len(W.array) : W.promises[W.array[i]].state = "fulfilled"
        THEN resolve(W1, AccRef)
        ELSE W1

\* const acc = []; the forEach; resolve(acc)
processAllPromises(W) ==
    resolve(forEachProcess([NewResult(W) EXCEPT !.allAcc = <<>>], 1), AccRef)

\* promiseLoop taking the last input (pop) where the code takes the first.
promiseLoop_Pop(W, acc) ==
    LET accOrNull == IF acc = Undefined THEN Null ELSE acc
    IN  IF W.array = <<>>
        THEN [threw |-> TRUE, W |-> W]
        ELSE LET popped == W.array[Len(W.array)]
                 W1 == [W EXCEPT !.array = SubSeq(@, 1, Len(@) - 1)]
                 W2 == then(W1, popped, Handler("chainThen", accOrNull, popped), NoHandler)
                 W3 == catch(W2, Len(W2.promises), Handler("chainCatch", accOrNull, popped))
             IN  [threw |-> FALSE, W |-> W3]

\* promiseLoop(acc = null): shift the next input off the array and chain the
\* two continuations on it.  On an empty array shift() returns undefined and
\* the call of then on it throws a TypeError.
promiseLoop(W, acc) ==
    LET accOrNull == IF acc = Undefined THEN Null ELSE acc
    IN  IF W.array = <<>>
        THEN [threw |-> TRUE, W |-> W]
        ELSE LET shifted == Head(W.array)
                 W1 == [W EXCEPT !.array = Tail(@)]
                 W2 == then(W1, shifted, Handler("chainThen", accOrNull, shifted), NoHandler)
                 W3 == catch(W2, Len(W2.promises), Handler("chainCatch", accOrNull, shifted))
             IN  [threw |-> FALSE, W |-> W3]

TypeError == Error("Cannot read property 'then' of undefined")

\* The executor of chainPromises; an exception it throws rejects the promise.
chainPromises(W, action) ==
    LET looped == promiseLoop(NewResult([W EXCEPT !.invoked.action = action]), Undefined)
    IN  IF looped.threw THEN reject(looped.W, TypeError) ELSE looped.W

\* The body of a continuation, called with the value its promise settled with.
RunHandler(W, handler, value) ==
    CASE handler.fn = "fastestThen" -> resolve(W, value)
      [] handler.fn = "fastestCatch" -> reject(W, value)
      [] handler.fn = "push" -> [W EXCEPT !.allAcc = push(@, value)]
      [] handler.fn = "observe" -> [W EXCEPT !.observed = [done |-> TRUE, res |-> W.allAcc]]
      [] handler.fn = "chainThen" ->
            LET acc == handler.acc
                newAcc == IF Truthy(acc) THEN Apply(W.invoked.action, acc, value) ELSE value
                W1 == [W EXCEPT !.processed = Append(@, handler.of)]
            IN  IF Len(W1.array) # 0 THEN promiseLoop(W1, newAcc).W ELSE resolve(W1, newAcc)
      [] handler.fn = "chainCatch" ->
            LET acc == handler.acc
                W1 == [W EXCEPT !.processed = Append(@, handler.of)]
            IN  IF Len(W1.array) # 0 THEN promiseLoop(W1, acc).W ELSE resolve(W1, acc)

\* What a continuation returns: push the new length of acc, the others
\* undefined.
Returns(W, handler) == IF handler.fn = "push" THEN Num(Len(W.allAcc)) ELSE Undefined

\* One reaction job: without a handler the derived promise settles as its
\* parent did, else the handler runs and the derived promise is fulfilled
\* with what it returns.
RunJobIn(W, job) ==
    IF job.handler = NoHandler
    THEN SettlePromise(W, job.derived, job.state, job.value)
    ELSE LET W1 == RunHandler(W, job.handler, job.value)
         IN  SettlePromise(W1, job.derived, "fulfilled", Returns(W1, job.handler))

Commit(W) ==
    /\ promises' = W.promises
    /\ jobs' = W.jobs
    /\ array' = W.array
    /\ invoked' = W.invoked
    /\ result' = W.result
    /\ subscribed' = W.subscribed
    /\ processed' = W.processed
    /\ allAcc' = W.allAcc
    /\ observed' = W.observed

NotInvoked == [fn |-> "none", action |-> "none", x |-> Undefined]

\* At a call: the first input of the array that has settled already.
FirstSettledAtCall ==
    LET settled == {i \in 1..Len(promises) : promises[i].state # "pending"}
    IN  IF settled = {} THEN 0 ELSE CHOOSE i \in settled : \A j \in settled : i <= j

\* A test holds an array of up to MaxInputs promises, all pending.
InitPromise ==
    /\ chains = <<>>
    /\ nodes = <<>>
    /\ call = NoCall
    /\ accepted = <<>>
    /\ combined = <<>>
    /\ \E n \in 0..MaxInputs :
           /\ promises = [i \in 1..n |->
                             [state |-> "pending", value |-> Undefined, reactions |-> <<>>]]
           /\ array = [i \in 1..n |-> i]
    /\ jobs = <<>>
    /\ invoked = NotInvoked
    /\ result = 0
    /\ subscribed = <<>>
    /\ processed = <<>>
    /\ firstSettled = 0
    /\ allAcc = <<>>
    /\ observed = [done |-> FALSE, res |-> <<>>]
    /\ fulfilledAtCall = {}
    /\ fulfilOrder = <<>>

\* The inputs are the promises made before the call: the returned promise
\* is the first one made by it.
NumInputs == IF result = 0 THEN Len(promises) ELSE result - 1

\* Input i fulfils with a value or rejects with its reason, before the call
\* (Promise.resolve, Promise.reject) or after it.
SettleInput(i, state, value) ==
    /\ promises[i].state = "pending"
    /\ Commit(SettlePromise(World, i, state, value))
    /\ firstSettled' = IF result # 0 /\ firstSettled = 0 THEN i ELSE firstSettled
    /\ fulfilOrder' = IF invoked.fn = "processAllPromises" /\ state = "fulfilled"
                      THEN Append(fulfilOrder, i)
                      ELSE fulfilOrder
    /\ UNCHANGED <<fulfilledAtCall, selectorVars>>

CallWillYouMarryMe(isPositiveAnswer) ==
    /\ invoked.fn = "none"
    /\ Commit(willYouMarryMe(
           [World EXCEPT !.invoked = [fn |-> "willYouMarryMe", action |-> "none",
                                      x |-> isPositiveAnswer]],
           isPositiveAnswer))
    /\ firstSettled' = FirstSettledAtCall
    /\ UNCHANGED <<fulfilledAtCall, fulfilOrder, selectorVars>>

CallGetFastestPromise ==
    /\ invoked.fn = "none"
    /\ Commit(getFastestPromise(
           [World EXCEPT !.invoked = [fn |-> "getFastestPromise", action |-> "none",
                                      x |-> Undefined]]))
    /\ firstSettled' = FirstSettledAtCall
    /\ UNCHANGED <<fulfilledAtCall, fulfilOrder, selectorVars>>

CallChainPromises(action) ==
    /\ invoked.fn = "none"
    /\ Commit(chainPromises(
           [World EXCEPT !.invoked = [fn |-> "chainPromises", action |-> action,
                                      x |-> Undefined]],
           action))
    /\ firstSettled' = FirstSettledAtCall
    /\ UNCHANGED <<fulfilledAtCall, fulfilOrder, selectorVars>>

\* The inputs of s, a set of inputs, in array order from input i on.
RECURSIVE InArrayOrder(_, _)
InArrayOrder(s, i) ==
    IF i > Len(promises) THEN <<>>
    ELSE (IF i \in s THEN <<i>> ELSE <<>>) \o InArrayOrder(s, i + 1)

\* const p = processAllPromises(promises); p.then((res) => console.log(res))
CallProcessAllPromises ==
    LET called == processAllPromises(
                      [World EXCEPT !.invoked = [fn |-> "processAllPromises",
                                                 action |-> "none", x |-> Undefined]])
        fulfilled == {i \in 1..Len(promises) : promises[i].state = "fulfilled"}
    IN  /\ invoked.fn = "none"
        /\ Commit(then(called, called.result, Handler("observe", Undefined, 0), NoHandler))
        /\ firstSettled' = FirstSettledAtCall
        /\ fulfilledAtCall' = fulfilled
        /\ fulfilOrder' = InArrayOrder(fulfilled, 1)
        /\ UNCHANGED selectorVars

\* The event loop runs the oldest job of the microtask queue.
RunJob ==
    /\ jobs # <<>>
    /\ Commit(RunJobIn([World EXCEPT !.jobs = Tail(@)], Head(jobs)))
    /\ UNCHANGED <<firstSettled, fulfilledAtCall, fulfilOrder, selectorVars>>

NextPromise ==
    \/ \E i \in 1..Len(promises), value \in Values :
           /\ i <= NumInputs
           /\ SettleInput(i, "fulfilled", value)
    \/ \E i \in 1..Len(promises) :
           /\ i <= NumInputs
           /\ SettleInput(i, "rejected", Reason(i))
    \/ \E isPositiveAnswer \in Answers : CallWillYouMarryMe(isPositiveAnswer)
    \/ CallProcessAllPromises
    \/ CallGetFastestPromise
    \/ \E action \in Actions : CallChainPromises(action)
    \/ RunJob

SpecPromise == InitPromise /\ [][NextPromise]_vars

(***************************************************************************)
(* One chain, grown by chained calls up to MaxFragments fragments.         *)
(***************************************************************************)
NextSelector ==
    \/ \E method \in Methods, name \in Names :
           /\ Len(chains) = 0
           /\ FacadeCall(method, name)
    \/ \E c \in 1..Len(chains), method \in Methods, name \in Names :
           /\ Len(chains[c].selectors) < MaxFragments
           /\ ChainCall(c, method, name)
    \/ \E c \in 1..Len(chains) : StringifyCall(SelectorRef(c))

SpecSelector == InitSelector /\ [][NextSelector]_vars

(***************************************************************************)
(* Several chains and combinator nodes, MaxHeap fragments and nodes in all.*)
(***************************************************************************)
NextBuilder ==
    \/ \E method \in Methods, name \in BuilderNames :
           /\ HeapSize < MaxHeap
           /\ FacadeCall(method, name)
    \/ \E c \in 1..Len(chains), method \in Methods, name \in BuilderNames :
           /\ HeapSize < MaxHeap
           /\ ChainCall(c, method, name)
    \/ \E selector1 \in Refs, combinator \in Combinators, selector2 \in Refs :
           /\ HeapSize < MaxHeap
           /\ CombineCall(selector1, combinator, selector2)
    \/ \E ref \in Refs : StringifyCall(ref)

SpecBuilder == InitSelector /\ [][NextBuilder]_vars

(***************************************************************************)
(* Properties of the selector builder.  They are stated over the calls     *)
(* made (call, accepted, combined), not over the private closure state.    *)
(***************************************************************************)
Rank(method) ==
    CASE method = "element" -> 0
      [] method = "id" -> 1
      [] method = "class" -> 2
      [] method = "attr" -> 3
      [] method = "pseudoClass" -> 4
      [] method = "pseudoElement" -> 5

Prefix(method) ==
    CASE method = "element" -> <<>>
      [] method = "id" -> <<"#">>
      [] method = "class" -> <<".">>
      [] method = "attr" -> <<"[">>
      [] method = "pseudoClass" -> <<":">>
      [] method = "pseudoElement" -> <<":", ":">>

Suffix(method) == IF method = "attr" THEN <<"]">> ELSE <<>>

RECURSIVE Concatenation(_, _)
Concatenation(calls, i) ==
    IF i > Len(calls) THEN <<>>
    ELSE Prefix(calls[i][1]) \o calls[i][2] \o Suffix(calls[i][1])
             \o Concatenation(calls, i + 1)

IsAppend(c) == c.op \in Methods

IsStringifyOf(type) == call.op = "stringify" /\ call.self.type = type

\* The largest rank among the fragments chain c holds, 0 for none.
RECURSIVE MaxRankOf(_, _)
MaxRankOf(calls, i) ==
    IF i > Len(calls) THEN 0
    ELSE LET rest == MaxRankOf(calls, i + 1)
         IN  IF Rank(calls[i][1]) > rest THEN Rank(calls[i][1]) ELSE rest

MaxRank(c) == MaxRankOf(accepted[c], 1)

HasRank(c, rank) == \E i \in 1..Len(accepted[c]) : Rank(accepted[c][i][1]) = rank

\* C1: stringify() on a chain returns the concatenation, in append order and
\* with no separator, of prefix + name + suffix of every accepted fragment.
C1_StringifyIsConcatenation ==
    IsStringifyOf("Selector") =>
        call.text = Concatenation(accepted[call.self.at], 1)

C1_Witness ==
    /\ IsStringifyOf("Selector")
    /\ accepted[call.self.at] =
           << <<"element", <<"a">> >>, <<"attr", <<"t", "d">> >>, <<"pseudoClass", <<"a">> >> >>
    /\ call.text = <<"a", "[", "t", "d", "]", ":", "a">>

\* C2: a second element, id or pseudo-element appended to a chain that holds
\* a fragment of that rank fails with DuplicateSingleton, whatever else the
\* chain holds and whatever its maximum rank.
C2_DuplicateSingletonAlwaysFails ==
    [][\A c \in 1..Len(chains) :
          (/\ IsAppend(call')
           /\ call'.self = SelectorRef(c)
           /\ Rank(call'.op) \in {0, 1, 5}
           /\ HasRank(c, Rank(call'.op)))
          => call'.error = DuplicateSingleton]_vars

C2_Witness ==
    /\ call.op = "id"
    /\ call.error = DuplicateSingleton
    /\ call.self.type = "Selector"
    /\ MaxRank(call.self.at) > 1

\* C3 as stated: a fragment of rank below the maximum rank always fails with
\* OutOfOrder, and one of rank equal to the maximum never fails on ordering.
C3_Original ==
    [][\A c \in 1..Len(chains) :
          (IsAppend(call') /\ call'.self = SelectorRef(c)) =>
              /\ Rank(call'.op) < MaxRank(c) => call'.error = OutOfOrder
              /\ Rank(call'.op) = MaxRank(c) => call'.error # OutOfOrder]_vars

\* C3 amended: a fragment of rank below the maximum rank always fails, with
\* DuplicateSingleton when it is an element or id and the chain holds one
\* already and with OutOfOrder otherwise; a fragment of rank equal to the
\* maximum never fails with OutOfOrder.
C3_LowerRankFails ==
    [][\A c \in 1..Len(chains) :
          (IsAppend(call') /\ call'.self = SelectorRef(c)) =>
              /\ Rank(call'.op) < MaxRank(c) =>
                     call'.error = IF Rank(call'.op) \in {0, 1, 5}
                                       /\ HasRank(c, Rank(call'.op))
                                    THEN DuplicateSingleton
                                    ELSE OutOfOrder
              /\ Rank(call'.op) = MaxRank(c) => call'.error # OutOfOrder]_vars

C3_Witness ==
    /\ call.op = "id"
    /\ call.error = OutOfOrder
    /\ call.self.type = "Selector"
    /\ accepted[call.self.at] = << <<"class", <<"a">> >>, <<"class", <<"t", "d">> >> >>

\* C4: in every reachable state the stored fragments of every chain are in
\* non-decreasing rank order and ranks 0, 1 and 5 occur at most once each.
C4_ChainInvariant ==
    \A c \in 1..Len(chains) :
        LET selectors == chains[c].selectors
        IN  /\ \A i, j \in 1..Len(selectors) :
                   i < j => selectors[i].weight <= selectors[j].weight
            /\ \A rank \in {0, 1, 5} :
                   Cardinality({i \in 1..Len(selectors) : selectors[i].weight = rank}) <= 1

C4_Witness ==
    /\ IsAppend(call)
    /\ call.error = DuplicateSingleton
    /\ call.op = "pseudoElement"
    /\ Len(chains[call.self.at].selectors) = 2

\* C5: combine(A, s, B).stringify() is A.stringify() + ' ' + s + ' ' +
\* B.stringify() for operands nested to any depth, and combine never fails.
C5_CombineRendersOperands ==
    /\ IsStringifyOf("Combiner") =>
           LET args == combined[call.self.at]
           IN  call.text = stringifyRef(args[1]) \o <<" ">> \o args[2] \o <<" ">>
                               \o stringifyRef(args[3])
    /\ call.op = "combine" =>
           /\ call.error = NoError
           /\ call.returned = CombinerRef(Len(nodes))

C5_Witness ==
    /\ IsStringifyOf("Combiner")
    /\ combined[call.self.at][1].type = "Combiner"
    /\ combined[call.self.at][3].type = "Selector"
    /\ combined[call.self.at][2] = <<"+">>

\* C6 as stated: with the single-space combinator the rendered operands are
\* separated by exactly two space characters.
C6_Original ==
    (IsStringifyOf("Combiner") /\ combined[call.self.at][2] = <<" ">>) =>
        LET A == stringifyRef(combined[call.self.at][1])
            B == stringifyRef(combined[call.self.at][3])
        IN  /\ Len(call.text) = Len(A) + 2 + Len(B)
            /\ SubSeq(call.text, 1, Len(A)) = A
            /\ \A i \in 1..2 : call.text[Len(A) + i] = " "
            /\ SubSeq(call.text, Len(A) + 3, Len(call.text)) = B

\* C6 amended: with the single-space combinator the rendered operands are
\* separated by exactly three space characters (the symbol and its padding).
C6_DescendantIsThreeSpaces ==
    (IsStringifyOf("Combiner") /\ combined[call.self.at][2] = <<" ">>) =>
        LET A == stringifyRef(combined[call.self.at][1])
            B == stringifyRef(combined[call.self.at][3])
        IN  /\ Len(call.text) = Len(A) + 3 + Len(B)
            /\ SubSeq(call.text, 1, Len(A)) = A
            /\ \A i \in 1..3 : call.text[Len(A) + i] = " "
            /\ SubSeq(call.text, Len(A) + 4, Len(call.text)) = B

C6_Witness ==
    /\ IsStringifyOf("Combiner")
    /\ combined[call.self.at][2] = <<" ">>
    /\ call.text = <<"a", " ", " ", " ", ":", ":", "a">>

\* C12: the duplicate rule is checked before the ordering rule: a second
\* element, id or pseudo-element whose rank is also below the maximum rank
\* fails with DuplicateSingleton, not with OutOfOrder.
C12_DuplicateBeforeOrder ==
    [][\A c \in 1..Len(chains) :
          (/\ IsAppend(call')
           /\ call'.self = SelectorRef(c)
           /\ Rank(call'.op) \in {0, 1, 5}
           /\ HasRank(c, Rank(call'.op))
           /\ Rank(call'.op) < MaxRank(c))
          => (call'.error = DuplicateSingleton /\ call'.error # OutOfOrder)]_vars

C12_Witness ==
    /\ call.op = "element"
    /\ call.error = DuplicateSingleton
    /\ call.self.type = "Selector"
    /\ HasRank(call.self.at, 0)
    /\ MaxRank(call.self.at) = 4

\* C13: an append that fails changes neither the fragments nor the cursor:
\* stringify() returns what it returned before, and every later append is
\* accepted or rejected as if the failed call had not been made.
C13_FailedAppendChangesNothing ==
    [][\A c \in 1..Len(chains) :
          (IsAppend(call') /\ call'.self = SelectorRef(c) /\ call'.error # NoError) =>
              /\ chains'[c].selectors = chains[c].selectors
              /\ chains'[c].currentSelectorWeight = chains[c].currentSelectorWeight
              /\ stringify(chains'[c]) = stringify(chains[c])
              /\ accepted'[c] = accepted[c]
              /\ \A method \in Methods, name \in Names :
                     Invoke(chains'[c], method, name) = Invoke(chains[c], method, name)]_vars

C13_Witness ==
    /\ call.op = "class"
    /\ call.error = OutOfOrder
    /\ call.self.type = "Selector"
    /\ chains[call.self.at].currentSelectorWeight = 4
    /\ Len(chains[call.self.at].selectors) = 2

\* C14: stringify() on a chain changes neither the fragments nor the cursor,
\* a further call returns the same string, and a later append is validated
\* and applied as if stringify() had not been called.
C14_StringifyReadOnly ==
    /\ [](IsStringifyOf("Selector") => call.text = stringify(chains[call.self.at]))
    /\ [][(call'.op = "stringify" /\ call'.self.type = "Selector") =>
              /\ chains' = chains
              /\ accepted' = accepted
              /\ \A c \in 1..Len(chains), method \in Methods, name \in Names :
                     Invoke(chains'[c], method, name) = Invoke(chains[c], method, name)]_vars

C14_Witness ==
    /\ IsStringifyOf("Selector")
    /\ call.text = <<"#", "t", "d", ".", "a">>
    /\ Len(chains[call.self.at].selectors) = 2
    /\ chains[call.self.at].currentSelectorWeight = 2

\* What ref renders to by the calls made: a chain by the fragments it
\* accepted so far, a node by the operands combine was given.
RECURSIVE Rendering(_)
Rendering(ref) ==
    IF ref.type = "Selector"
    THEN Concatenation(accepted[ref.at], 1)
    ELSE Rendering(combined[ref.at][1]) \o <<" ">> \o combined[ref.at][2] \o <<" ">>
             \o Rendering(combined[ref.at][3])

\* Whether chain c is an operand of ref, at any depth.
RECURSIVE Holds(_, _)
Holds(ref, c) ==
    IF ref.type = "Selector"
    THEN ref.at = c
    ELSE Holds(combined[ref.at][1], c) \/ Holds(combined[ref.at][3], c)

\* C18: a node renders its operands afresh: once a chain it holds accepts
\* another fragment, the node's stringify() includes it; stringify() on a
\* node changes neither the operands nor the symbol.
C18_CombinerHoldsReferences ==
    /\ [](\A n \in 1..Len(nodes) :
              stringifyRef(CombinerRef(n)) = Rendering(CombinerRef(n)))
    /\ [][/\ (call'.op = "stringify" /\ call'.self.type = "Combiner") =>
                 (chains' = chains /\ nodes' = nodes /\ accepted' = accepted)
          /\ \A c \in 1..Len(chains), n \in 1..Len(nodes) :
                 (/\ IsAppend(call')
                  /\ call'.self = SelectorRef(c)
                  /\ call'.error = NoError
                  /\ Holds(CombinerRef(n), c))
                 => /\ nodes'[n] = nodes[n]
                    /\ Len(stringifyRef(CombinerRef(n))') >
                           Len(stringifyRef(CombinerRef(n)))]_vars

C18_Witness ==
    /\ IsAppend(call)
    /\ call.error = NoError
    /\ call.self.type = "Selector"
    /\ Len(nodes) = 1
    /\ combined[1][1] = call.self
    /\ stringifyRef(CombinerRef(1)) = <<"a", "#", "a", " ", "+", " ", "a", "#", "a">>

\* C19: a facade call makes a fresh chain holding only its own fragment, a
\* chained call returns the chain it was made on, and no call on one chain
\* changes another chain.
C19_ChainsAreIndependent ==
    [][IsAppend(call') =>
          /\ \A c \in 1..Len(chains) :
                 call'.self # SelectorRef(c) =>
                     (chains'[c] = chains[c] /\ accepted'[c] = accepted[c])
          /\ call'.error = NoError => call'.returned = call'.self
          /\ Len(chains') > Len(chains) =>
                 LET made == chains'[Len(chains')]
                 IN  /\ call'.self = SelectorRef(Len(chains'))
                     /\ Len(made.selectors) = 1
                     /\ made.selectors[1].weight = Rank(call'.op)
                     /\ made.selectors[1].selectorName = call'.name
                     /\ made.currentSelectorWeight = Rank(call'.op)]_vars

C19_Witness ==
    /\ Len(chains) = 2
    /\ call.op = "id"
    /\ call.error = OutOfOrder
    /\ call.self = SelectorRef(2)
    /\ accepted[1] = << <<"pseudoElement", <<"a">> >> >>
    /\ accepted[2] = << <<"class", <<"a">> >> >>

(***************************************************************************)
(* Properties of the promise tasks, stated over the returned promise and   *)
(* the inputs.                                                             *)
(***************************************************************************)
Returned == promises[result]

Settled(p) == promises[p].state # "pending"

\* C7: willYouMarryMe(x) resolves with the yes message for true, with the no
\* message for false, and is rejected with the fixed Error for every x that
\* is not a boolean.
C7_NonBooleanIsRejected ==
    invoked.fn = "willYouMarryMe" =>
        /\ invoked.x = Bool(TRUE) =>
               /\ Returned.state = "fulfilled"
               /\ Returned.value = Str("Hooray!!! She said \"Yes\"!")
        /\ invoked.x = Bool(FALSE) =>
               /\ Returned.state = "fulfilled"
               /\ Returned.value = Str("Oh no, she said \"No\".")
        /\ invoked.x.t # "boolean" =>
               /\ Returned.state = "rejected"
               /\ Returned.value = Error("Wrong parameter is passed! Ask her again.")

\* C8: the promise of getFastestPromise settles as the input that settled
\* first did: same kind (fulfilled or rejected) and same value.
C8_FirstSettledWins ==
    (invoked.fn = "getFastestPromise" /\ Settled(result)) =>
        /\ firstSettled # 0
        /\ Returned.state = promises[firstSettled].state
        /\ Returned.value = promises[firstSettled].value

\* The left fold of the action over the fulfilled inputs from input i on.
RECURSIVE FoldFrom(_, _, _)
FoldFrom(i, acc, seeded) ==
    IF i > NumInputs THEN acc
    ELSE IF promises[i].state = "fulfilled"
    THEN FoldFrom(i + 1,
                  IF seeded THEN Apply(invoked.action, acc, promises[i].value)
                  ELSE promises[i].value,
                  TRUE)
    ELSE FoldFrom(i + 1, acc, seeded)

\* C9: chainPromises resolves with the left fold of action over the values
\* of the fulfilled inputs in input order, seeded with the first of them,
\* whatever values the accumulator takes.
C9_ResolvesWithLeftFold ==
    (/\ invoked.fn = "chainPromises"
     /\ Settled(result)
     /\ \E i \in 1..NumInputs : promises[i].state = "fulfilled")
    => /\ Returned.state = "fulfilled"
       /\ Returned.value = FoldFrom(1, Null, FALSE)

\* C10: chainPromises subscribes to an input only when every earlier input
\* has settled, and its continuations run in input order whatever the order
\* in which the inputs settle.
C10_StrictInputOrder ==
    invoked.fn = "chainPromises" =>
        /\ \A k \in 1..Len(processed) : processed[k] = k
        /\ \A k \in 1..Len(subscribed) :
               subscribed[k] <= NumInputs =>
                   \A j \in 1..(subscribed[k] - 1) : Settled(j)

C10_Witness ==
    /\ invoked = [fn |-> "chainPromises", action |-> "add", x |-> Undefined]
    /\ firstSettled = 3
    /\ processed = <<1, 2, 3>>
    /\ \A i \in 1..3 : promises[i].value = Num(i)
    /\ Returned.state = "fulfilled"
    /\ Returned.value = Num(6)

\* The values of the inputs listed in order.
ValuesOf(order) == [k \in 1..Len(order) |-> promises[order[k]].value]

C16_NeverRejected ==
    invoked.fn = "chainPromises" => Returned.state # "rejected"

\* C17: the promise of processAllPromises is fulfilled with the array from
\* the call on, whatever state the inputs are in, and is never rejected; the
\* array holds the values of the fulfilled inputs in the order they
\* fulfilled, all of them once the continuations have run.
C17_FulfilledWithoutWaiting ==
    invoked.fn = "processAllPromises" =>
        /\ Returned.state = "fulfilled"
        /\ Returned.value = AccRef
        /\ Len(allAcc) <= Len(fulfilOrder)
        /\ allAcc = ValuesOf(SubSeq(fulfilOrder, 1, Len(allAcc)))
        /\ jobs = <<>> => allAcc = ValuesOf(fulfilOrder)

C17_Witness ==
    /\ invoked.fn = "processAllPromises"
    /\ NumInputs = 3
    /\ fulfilledAtCall = {}
    /\ observed = [done |-> TRUE, res |-> <<>>]
    /\ promises[1].state = "pending"
    /\ promises[2].state = "rejected"
    /\ fulfilOrder = <<3>>
    /\ allAcc = <<promises[3].value>>
    /\ Returned.state = "fulfilled"

\* The inputs chainPromises has subscribed to so far.
Shifted == {k \in DOMAIN subscribed : subscribed[k] <= NumInputs}

\* C20: chainPromises takes the inputs off the front of the caller's array,
\* one per input it gets to, so the array holds the inputs not reached yet
\* and is empty when the returned promise is fulfilled.
C20_ConsumesArrayInPlace ==
    invoked.fn = "chainPromises" =>
        /\ array = [k \in 1..(NumInputs - Cardinality(Shifted)) |->
                        k + Cardinality(Shifted)]
        /\ Cardinality(Shifted) \in {Len(processed), Len(processed) + 1}
        /\ Returned.state = "fulfilled" => array = <<>>

C20_Witness ==
    /\ invoked = [fn |-> "chainPromises", action |-> "mul", x |-> Undefined]
    /\ NumInputs = 3
    /\ array = <<>>
    /\ processed = <<1, 2, 3>>
    /\ \A i \in 1..3 : promises[i].value = Num(i)
    /\ Returned.state = "fulfilled"
    /\ Returned.value = Num(6)

====
